---------------------------- MODULE Spec2Model ----------------------------
(***************************************************************************)
(* Edit planner of flona-ai: generate_edit_plan (backend/planner.py) and   *)
(* the matcher it calls, find_best_match / compute_similarity /            *)
(* get_embedding / generate_match_reason (backend/matcher.py).             *)
(*                                                                         *)
(* Numbers.  Times are exact fixed-point values in ticks of 1/5000 s, so   *)
(* that 0.8 x a duration given in whole milliseconds is again a whole      *)
(* number of ticks.  Similarity scores and thresholds are exact rationals  *)
(* [num, den] in lowest terms.  IEEE rounding error of the Python floats   *)
(* is not modelled; round(x, n) is modelled as round-half-even.            *)
(***************************************************************************)
EXTENDS Integers, Sequences, FiniteSets, TLC

VARIABLES
    \* arguments of generate_edit_plan
    transcript_segments, broll_clips, similarity_threshold, min_gap,
    \* the embedding provider and the reasoning model, when deterministic
    provider,
    \* locals of generate_edit_plan
    edits, last_edit_time, seg_idx, match, edl, pc,
    \* locals of find_best_match
    segment_embedding, clip_idx, best_clip, best_score, similarity,
    \* history of the current find_best_match call
    scores, failed_clips,
    \* history of the current run of generate_edit_plan: the segments that
    \* got an edit, the segments find_best_match was called for, the calls of
    \* the embedding provider and of the reasoning model
    edit_segs, match_calls,
    emb_failures, emb_log, emb_calls,
    reason_calls,
    \* gemini_client: the module's _configured flag, and whether the
    \* environment holds GEMINI_API_KEY
    configured, api_key,
    \* a second run on the same arguments
    run_no, prev_run, replay,
    \* validate_edl: its argument, its position, the index of the edit it
    \* looks at, and the error it raised
    v_edl, v_pc, v_idx, v_error,
    \* transcribe_video: its position, the uploaded file's state, the polls
    \* made, the next model to try, the models tried with their outcomes, the
    \* locals response and last_error, the exception caught by the handler
    \* of lines 121-127, and the list returned
    t_pc, file_state, retry_count, model_idx, tried, response, last_error,
    caught, returned

inputs == <<transcript_segments, broll_clips, similarity_threshold, min_gap,
            provider>>
planner == <<edits, last_edit_time, seg_idx, match, edl, pc>>
matcher == <<segment_embedding, clip_idx, best_clip, best_score, similarity>>
callhist == <<scores, failed_clips>>
runhist == <<edit_segs, match_calls>>
embhist == <<emb_failures, emb_log, emb_calls>>
rsnhist == <<reason_calls>>
client == <<configured, api_key>>
runs == <<run_no, prev_run, replay>>
plan_state == <<inputs, planner, matcher, callhist, runhist, embhist, rsnhist,
                runs>>
planning == <<plan_state, client>>
validation == <<v_edl, v_pc, v_idx, v_error>>
transcription == <<t_pc, file_state, retry_count, model_idx, tried, response,
                   last_error, caught, returned>>
\* what a step of generate_edit_plan leaves alone
offstage == <<validation, transcription>>
vars == <<planning, validation, transcription>>

----------------------------------------------------------------------------
\* Bounds of the model
MaxSegs == 2
MaxClips == 2
\* embedding calls that fail in one run
MaxEmbFailures == 1

\* Fixed-point time
TicksPerSec == 5 * 1000
Ms(n) == 5 * n
Sec(n) == TicksPerSec * n

----------------------------------------------------------------------------
\* Exact rationals for the float scores

Abs(n) == IF n < 0 THEN -n ELSE n

RECURSIVE GCD(_, _)
GCD(a, b) == IF b = 0 THEN a ELSE GCD(b, a % b)

Rat(n, d) ==
    LET g == GCD(Abs(n), d)
    IN  IF n = 0 THEN [num |-> 0, den |-> 1]
        ELSE [num |-> n \div g, den |-> d \div g]

RLess(x, y) == x.num * y.den < y.num * x.den
RLeq(x, y) == x.num * y.den <= y.num * x.den

\* Python round(): the nearest integer to n/d, ties to even
RoundDiv(n, d) ==
    LET q == n \div d
        r == n % d
    IN  IF 2 * r < d THEN q
        ELSE IF 2 * r > d THEN q + 1
        ELSE IF q % 2 = 0 THEN q ELSE q + 1

\* round(x, 2) of a time in ticks: the nearest hundredth of a second
Round2(t) == RoundDiv(t, TicksPerSec \div 100) * (TicksPerSec \div 100)

\* round(x, 3) of a score
Round3(x) == Rat(RoundDiv(1000 * x.num, x.den), 1000)

Min(a, b) == IF a < b THEN a ELSE b

----------------------------------------------------------------------------
\* Absent values (Python None) are the empty sequence, present ones <<v>>
None == << >>
Some(v) == <<v>>

----------------------------------------------------------------------------
\* The embedding provider, stubbed: gemini_client.get_embedding
EmbDim == 768

Embedding(text) ==
    CASE text = "a" -> <<3, 4>>
      [] text = "b" -> <<4, 3>>
      [] text = "c" -> <<-3, -4>>
      [] text = "e" -> <<12, 5>>
      [] OTHER      -> << >>

ZeroVector == [i \in 1..EmbDim |-> 0]

\* matcher.get_embedding: the provider's vector, or the zero vector when the
\* provider raises
get_embedding(text, ok) == IF ok THEN Embedding(text) ELSE ZeroVector

\* sum of u[i] * v[i] for i in lo..hi
RECURSIVE DotRange(_, _, _, _)
DotRange(u, v, lo, hi) ==
    IF lo > hi THEN 0
    ELSE IF lo = hi THEN u[lo] * v[lo]
    ELSE LET mid == (lo + hi) \div 2
         IN  DotRange(u, v, lo, mid) + DotRange(u, v, mid + 1, hi)

Dot(u, v) == DotRange(u, v, 1, Len(u))

ISqrt(n) == CHOOSE r \in 0..n : r * r = n

\* sklearn normalises each row by its L2 norm, a zero norm being replaced by 1
RowNorm(v) == LET n == ISqrt(Dot(v, v)) IN IF n = 0 THEN 1 ELSE n

cosine_similarity(u, v) == Rat(Dot(u, v), RowNorm(u) * RowNorm(v))

compute_similarity(embedding1, embedding2) ==
    IF embedding1 = << >> \/ embedding2 = << >> THEN Rat(0, 1)
    ELSE LET min_len == Min(Len(embedding1), Len(embedding2))
             e1 == IF Len(embedding1) # Len(embedding2)
                   THEN SubSeq(embedding1, 1, min_len) ELSE embedding1
             e2 == IF Len(embedding1) # Len(embedding2)
                   THEN SubSeq(embedding2, 1, min_len) ELSE embedding2
         IN  cosine_similarity(e1, e2)


----------------------------------------------------------------------------
\* The arguments a run is started with

\* Transcript segments {start, end, text}; times in ticks
Segments ==
    { [start |-> 0,          end |-> Ms(2507),  text |-> "a"],
      [start |-> Ms(2006),   end |-> Ms(12006), text |-> "e"],
      [start |-> Sec(20),    end |-> Sec(22),   text |-> "e"],
      [start |-> Sec(20),    end |-> Sec(30),   text |-> "a"] }

\* Clip descriptions
Descriptions == {"b", "c"}

\* similarity_threshold and min_gap are request parameters (main.py:46-47).
\* Thresholds: the planner's default 0.7, 0, the lowest cosine -1, and 0.9692,
\* a value with more than three decimals.
\* Gaps: the default 8 s, and 0.
Thresholds == << Rat(7, 10), Rat(0, 1), Rat(-1, 1), Rat(9692, 10000) >>
MinGaps == << Sec(8), 0 >>

SeqsUpTo(S, n) == UNION { [1..k -> S] : k \in 0..n }

\* Transcripts are ordered by start (spec section 3)
Transcripts ==
    { segs \in SeqsUpTo(Segments, MaxSegs) :
        \A i \in 1..(Len(segs) - 1) : segs[i].start <= segs[i + 1].start }

Catalogs ==
    { [i \in DOMAIN ds |-> [clip_name |-> i, description |-> ds[i]]] :
        ds \in SeqsUpTo(Descriptions, MaxClips) }

\* run_no: 0 is a single call of generate_edit_plan.  1 and 2 are two calls
\* with the same arguments and embedding results, the reasoning model free.
\* 3 and 4 are two calls with the same arguments and deterministic providers:
\* whether a text can be embedded, and what the reasoning model answers for a
\* segment, are functions of the text, the same in both calls.
FirstRuns == {1, 3}
Deterministic == {3, 4}

Texts == {"a", "e"} \cup Descriptions
ReasonResults == {"llm text 1", "llm text 2", "error"}
FreeProvider == [emb_fails |-> {}, reason |-> << >>]
Providers ==
    {[emb_fails |-> f, reason |-> r] :
        f \in {{}} \cup {{t} : t \in Texts},
        r \in [{"a", "e"} -> {"llm text 1", "error"}]}

\* Outcomes of one call of the reasoning model: a text, or an exception.
\* In run 1 every reasoning call returns the same text (the reference run);
\* run 2 is compared with it under every outcome.
ReasonOutcomes(text) ==
    IF run_no = 1 THEN {"llm text 1"}
    ELSE IF run_no \in Deterministic THEN {provider.reason[text]}
    ELSE ReasonResults

\* Outcomes of one call of the embedding provider: TRUE is success.
EmbOutcomes(text) ==
    IF run_no \in Deterministic THEN {text \notin provider.emb_fails}
    ELSE IF run_no = 2 /\ Len(emb_log) < Len(replay)
    THEN {replay[Len(emb_log) + 1]}
    ELSE IF emb_failures < MaxEmbFailures THEN BOOLEAN ELSE {TRUE}

\* gemini_client.configure_gemini, lines 10-24
configure_gemini(flag, key) == IF flag THEN TRUE ELSE key

\* One call of matcher.get_embedding.  The results are recorded when a second
\* run is to follow.
Called(ok) ==
    /\ emb_failures' = IF ok THEN emb_failures ELSE emb_failures + 1
    /\ emb_log' = IF run_no \in {1, 2} THEN Append(emb_log, ok) ELSE emb_log
    /\ emb_calls' = emb_calls + 1
    /\ configured' = configure_gemini(configured, api_key)

----------------------------------------------------------------------------
\* generate_edit_plan, lines 42-43, and the frame of a matcher not yet called
NoMatch == [best_clip |-> None, similarity |-> Rat(0, 1), reason |-> ""]

MatcherIdle ==
    /\ segment_embedding = << >>
    /\ clip_idx = 0
    /\ best_clip = None
    /\ best_score = Rat(-1, 1)
    /\ similarity = Rat(0, 1)

MatcherReturns ==
    /\ segment_embedding' = << >>
    /\ clip_idx' = 0
    /\ best_clip' = None
    /\ best_score' = Rat(-1, 1)
    /\ similarity' = Rat(0, 1)

\* last_edit_time starting at 0
NoEditYet_zero(gap) == 0

\* line 43
NoEditYet(gap) == -gap

\* validate_edl not called
ValidatorIdle ==
    /\ v_edl = None
    /\ v_pc = "idle"
    /\ v_idx = 0
    /\ v_error = None

\* transcribe_video not called
TranscriberIdle ==
    /\ t_pc = "idle"
    /\ file_state = None
    /\ retry_count = 0
    /\ model_idx = 0
    /\ tried = << >>
    /\ response = None
    /\ last_error = None
    /\ caught = None
    /\ returned = None

Start(keys, providers) ==
    /\ ValidatorIdle
    /\ TranscriberIdle
    /\ transcript_segments \in Transcripts
    /\ broll_clips \in Catalogs
    /\ \E i \in DOMAIN Thresholds : similarity_threshold = Thresholds[i]
    /\ \E i \in DOMAIN MinGaps : min_gap = MinGaps[i]
    /\ edits = << >>
    /\ last_edit_time = NoEditYet(min_gap)
    /\ seg_idx = 1
    /\ match = NoMatch
    /\ edl = None
    /\ pc = "loop"
    /\ MatcherIdle
    /\ scores = << >>
    /\ failed_clips = {}
    /\ edit_segs = << >>
    /\ match_calls = << >>
    /\ emb_failures = 0
    /\ emb_log = << >>
    /\ emb_calls = 0
    /\ reason_calls = 0
    /\ configured = FALSE
    /\ api_key \in keys
    /\ provider \in providers
    /\ prev_run = None
    /\ replay = << >>

\* generate_edit_plan not called
PlannerIdle ==
    /\ transcript_segments = << >>
    /\ broll_clips = << >>
    /\ similarity_threshold = Thresholds[1]
    /\ min_gap = MinGaps[1]
    /\ provider = FreeProvider
    /\ edits = << >>
    /\ last_edit_time = 0
    /\ seg_idx = 0
    /\ match = NoMatch
    /\ edl = None
    /\ pc = "idle"
    /\ MatcherIdle
    /\ scores = << >>
    /\ failed_clips = {}
    /\ edit_segs = << >>
    /\ match_calls = << >>
    /\ emb_failures = 0
    /\ emb_log = << >>
    /\ emb_calls = 0
    /\ reason_calls = 0
    /\ configured = FALSE
    /\ api_key = TRUE
    /\ run_no = 0
    /\ prev_run = None
    /\ replay = << >>

\* one call of generate_edit_plan, GEMINI_API_KEY set
Init == Start({TRUE}, {FreeProvider}) /\ run_no = 0

\* the first of two calls with the same arguments
InitPair == Start({TRUE}, {FreeProvider}) /\ run_no = 1

\* the first of two calls with the same arguments and deterministic providers
InitDet == Start(BOOLEAN, Providers) /\ run_no = 3

segment == transcript_segments[seg_idx]
segment_start == segment.start
segment_duration == segment.end - segment.start

\* Rule 1, lines 50-51
TooSoon(start, last, gap) == start - last < gap

InLoop == pc = "loop" /\ seg_idx <= Len(transcript_segments)

\* the matcher called before the gap is looked at
PassedGap_unchecked == TRUE

\* lines 50-56: the segment at hand gets past the continue of line 52
PassedGap == ~TooSoon(segment_start, last_edit_time, min_gap)

\* lines 51-52: continue
GapSkip ==
    /\ InLoop
    /\ TooSoon(segment_start, last_edit_time, min_gap)
    /\ seg_idx' = seg_idx + 1
    /\ UNCHANGED <<offstage, inputs, edits, last_edit_time, match, edl, pc,
                   matcher, callhist, runhist, embhist, rsnhist, client, runs>>

\* the segment embedded before the catalog is looked at
EmptyCatalog_embeds ==
    /\ InLoop
    /\ ~TooSoon(segment_start, last_edit_time, min_gap)
    /\ broll_clips = << >>
    /\ \E ok \in EmbOutcomes(segment.text) : Called(ok)
    /\ match' = [best_clip |-> None, similarity |-> Rat(0, 1),
                 reason |-> "No B-roll clips available"]
    /\ pc' = "matched"
    /\ scores' = << >>
    /\ failed_clips' = {}
    /\ match_calls' = Append(match_calls, seg_idx)
    /\ UNCHANGED <<offstage, inputs, edits, last_edit_time, seg_idx, edl,
                   matcher, edit_segs, rsnhist, api_key, runs>>

\* find_best_match, lines 77-78
EmptyCatalog ==
    /\ InLoop
    /\ PassedGap
    /\ broll_clips = << >>
    /\ match' = [best_clip |-> None, similarity |-> Rat(0, 1),
                 reason |-> "No B-roll clips available"]
    /\ pc' = "matched"
    /\ scores' = << >>
    /\ failed_clips' = {}
    /\ match_calls' = Append(match_calls, seg_idx)
    /\ UNCHANGED <<offstage, inputs, edits, last_edit_time, seg_idx, edl,
                   matcher, edit_segs, embhist, rsnhist, client, runs>>

\* find_best_match, lines 81-85
BeginMatch ==
    /\ InLoop
    /\ PassedGap
    /\ broll_clips # << >>
    /\ \E ok \in EmbOutcomes(segment.text) :
          /\ segment_embedding' = get_embedding(segment.text, ok)
          /\ Called(ok)
    /\ best_clip' = None
    /\ best_score' = Rat(-1, 1)
    /\ clip_idx' = 1
    /\ pc' = "score"
    /\ scores' = << >>
    /\ failed_clips' = {}
    /\ match_calls' = Append(match_calls, seg_idx)
    /\ UNCHANGED <<offstage, inputs, edits, last_edit_time, seg_idx, match, edl,
                   similarity, edit_segs, rsnhist, api_key, runs>>

\* line 92
Better(sim, best) == RLess(best, sim)

\* find_best_match, lines 87-94: one iteration of the scoring loop
ScoreClip ==
    /\ pc = "score"
    /\ clip_idx <= Len(broll_clips)
    /\ \E ok \in EmbOutcomes(broll_clips[clip_idx].description) :
          LET clip == broll_clips[clip_idx]
              clip_embedding == get_embedding(clip.description, ok)
          IN  \E sim \in {compute_similarity(segment_embedding,
                                              clip_embedding)} :
              /\ similarity' = sim
              /\ IF Better(sim, best_score)
                 THEN best_score' = sim /\ best_clip' = Some(clip)
                 ELSE UNCHANGED <<best_score, best_clip>>
              /\ scores' = Append(scores, sim)
              /\ failed_clips' = IF ok THEN failed_clips
                                 ELSE failed_clips \cup {clip_idx}
              /\ Called(ok)
    /\ clip_idx' = clip_idx + 1
    /\ UNCHANGED <<offstage, inputs, planner, segment_embedding, runhist,
                   rsnhist, api_key, runs>>

LoopDone == pc = "score" /\ clip_idx > Len(broll_clips)

\* no score held to be below the threshold
Below_never(score, threshold) == FALSE

\* line 97
Below(score, threshold) == RLess(score, threshold)

\* find_best_match, lines 97-99
BelowThreshold ==
    /\ LoopDone
    /\ Below(best_score, similarity_threshold)
    /\ match' = [best_clip |-> None, similarity |-> best_score,
                 reason |-> "No B-roll clip matched above threshold"]
    /\ pc' = "matched"
    /\ MatcherReturns
    /\ UNCHANGED <<offstage, inputs, edits, last_edit_time, seg_idx, edl,
                   callhist, runhist, embhist, rsnhist, client, runs>>

\* line 102 with best_clip still None: None['description'] raises TypeError,
\* which neither find_best_match nor generate_edit_plan catches
MatchRaises ==
    /\ LoopDone
    /\ ~Below(best_score, similarity_threshold)
    /\ best_clip = None
    /\ pc' = "raised"
    /\ UNCHANGED <<offstage, inputs, edits, last_edit_time, seg_idx, match, edl,
                   matcher, callhist, runhist, embhist, rsnhist, client, runs>>

\* generate_match_reason, lines 119-143: the model's text, or the templated
\* fallback when the call raises
generate_match_reason(outcome) ==
    IF outcome = "error" THEN "Semantic match with similarity score"
    ELSE outcome

\* the reasoning call's exception left uncaught
ReasonedMatch_uncaught ==
    /\ pc = "score" /\ clip_idx > Len(broll_clips)
    /\ ~RLess(best_score, similarity_threshold)
    /\ best_clip # None
    /\ \E outcome \in ReasonOutcomes(segment.text) :
          IF outcome = "error"
          THEN /\ pc' = "raised"
               /\ UNCHANGED <<match, matcher>>
          ELSE /\ match' = [best_clip |-> best_clip,
                            similarity |-> best_score, reason |-> outcome]
               /\ pc' = "matched"
               /\ MatcherReturns
    /\ reason_calls' = reason_calls + 1
    /\ configured' = configure_gemini(configured, api_key)
    /\ UNCHANGED <<offstage, inputs, edits, last_edit_time, seg_idx, edl,
                   callhist, runhist, embhist, api_key, runs>>

\* find_best_match, lines 102-104
ReasonedMatch ==
    /\ LoopDone
    /\ ~Below(best_score, similarity_threshold)
    /\ best_clip # None
    /\ \E outcome \in ReasonOutcomes(segment.text) :
          match' = [best_clip |-> best_clip, similarity |-> best_score,
                    reason |-> generate_match_reason(outcome)]
    /\ reason_calls' = reason_calls + 1
    /\ configured' = configure_gemini(configured, api_key)
    /\ pc' = "matched"
    /\ MatcherReturns
    /\ UNCHANGED <<offstage, inputs, edits, last_edit_time, seg_idx, edl,
                   callhist, runhist, embhist, api_key, runs>>

\* The for statement takes the next segment.  The match of the segment left
\* behind is dropped with it: line 56 rebinds best_clip, similarity and reason
\* before lines 62-85 read them again.
NextSegment ==
    /\ seg_idx' = seg_idx + 1
    /\ pc' = "loop"
    /\ match' = NoMatch
    /\ scores' = << >>
    /\ failed_clips' = {}

\* generate_edit_plan, lines 65-67: continue
NoMatchSkip ==
    /\ pc = "matched"
    /\ match.best_clip = None
    /\ NextSegment
    /\ UNCHANGED <<offstage, inputs, edits, last_edit_time, edl, matcher,
                   runhist, embhist, rsnhist, client, runs>>

\* the overlay as long as the segment
BrollDuration_whole(duration) == duration

\* line 71
BrollDuration(duration) == Min((duration * 8) \div 10, duration)

broll_duration == BrollDuration(segment_duration)

\* the floor compared against 1 second
TooShort_1s(duration) == duration < Sec(1)

\* line 74
TooShort(duration) == duration < Sec(2)

\* the end of the overlay recorded for an edit that is dropped
DurationSkip_advances ==
    /\ pc = "matched"
    /\ match.best_clip # None
    /\ TooShort(broll_duration)
    /\ last_edit_time' = segment_start + broll_duration
    /\ NextSegment
    /\ UNCHANGED <<offstage, inputs, edits, edl, matcher, runhist,
                   embhist, rsnhist, client, runs>>

\* lines 74-75: continue
DurationSkip ==
    /\ pc = "matched"
    /\ match.best_clip # None
    /\ TooShort(broll_duration)
    /\ NextSegment
    /\ UNCHANGED <<offstage, inputs, edits, last_edit_time, edl, matcher,
                   runhist, embhist, rsnhist, client, runs>>

\* the edit written without its reason
Edit_no_reason(seg, duration, m) ==
    [start_time       |-> seg.start,
     duration         |-> Round2(duration),
     b_roll_clip      |-> m.best_clip[1].clip_name,
     transcript_text  |-> seg.text,
     similarity_score |-> Round3(m.similarity)]

\* lines 78-85
Edit(seg, duration, m) ==
    [start_time       |-> seg.start,
     duration         |-> Round2(duration),
     b_roll_clip      |-> m.best_clip[1].clip_name,
     reason           |-> m.reason,
     transcript_text  |-> seg.text,
     similarity_score |-> Round3(m.similarity)]

\* the end of the overlay taken to be its start
EditEnd_start(start, duration) == start

\* line 88
EditEnd(start, duration) == start + duration

\* the new edit put in the place of the ones before it
Commit_replaces ==
    /\ pc = "matched"
    /\ match.best_clip # None
    /\ ~TooShort(broll_duration)
    /\ edits' = <<Edit(segment, broll_duration, match)>>
    /\ last_edit_time' = EditEnd(segment_start, broll_duration)
    /\ edit_segs' = <<seg_idx>>
    /\ NextSegment
    /\ UNCHANGED <<offstage, inputs, edl, matcher, match_calls, embhist,
                   rsnhist, client, runs>>

\* lines 78-88
Commit ==
    /\ pc = "matched"
    /\ match.best_clip # None
    /\ ~TooShort(broll_duration)
    /\ edits' = Append(edits, Edit(segment, broll_duration, match))
    /\ last_edit_time' = EditEnd(segment_start, broll_duration)
    /\ edit_segs' = Append(edit_segs, seg_idx)
    /\ NextSegment
    /\ UNCHANGED <<offstage, inputs, edl, matcher, match_calls, embhist,
                   rsnhist, client, runs>>

\* edits_applied counting the segments scanned
Edl_segments(segs, clips, es, threshold, gap) ==
    [metadata |-> [total_segments       |-> Len(segs),
                   total_broll_clips    |-> Len(clips),
                   edits_applied        |-> Len(segs),
                   similarity_threshold |-> threshold,
                   min_gap_seconds      |-> gap],
     edits |-> es]

\* lines 91-100
Edl(segs, clips, es, threshold, gap) ==
    [metadata |-> [total_segments       |-> Len(segs),
                   total_broll_clips    |-> Len(clips),
                   edits_applied        |-> Len(es),
                   similarity_threshold |-> threshold,
                   min_gap_seconds      |-> gap],
     edits |-> es]

\* lines 91-102
Finish ==
    /\ pc = "loop"
    /\ seg_idx > Len(transcript_segments)
    /\ edl' = Some(Edl(transcript_segments, broll_clips, edits,
                       similarity_threshold, min_gap))
    /\ pc' = "done"
    /\ UNCHANGED <<offstage, inputs, edits, last_edit_time, seg_idx, match,
                   matcher, callhist, runhist, embhist, rsnhist, client, runs>>

Step ==
    \/ GapSkip
    \/ EmptyCatalog
    \/ BeginMatch
    \/ ScoreClip
    \/ BelowThreshold
    \/ MatchRaises
    \/ ReasonedMatch
    \/ NoMatchSkip
    \/ DurationSkip
    \/ Commit
    \/ Finish

Next == Step

Spec == Init /\ [][Next]_vars

\* An edit without its reason
Chosen(e) ==
    [start_time |-> e.start_time, duration |-> e.duration,
     b_roll_clip |-> e.b_roll_clip, similarity_score |-> e.similarity_score]

ChosenEdits(es) == [i \in DOMAIN es |-> Chosen(es[i])]

\* generate_edit_plan called again with the same arguments once the first
\* call has returned or raised; last is the value last_edit_time starts with.
\* The module state of gemini_client stays as the first call left it.
Recall(last) ==
    /\ run_no \in FirstRuns
    /\ pc \in {"done", "raised"}
    /\ run_no' = run_no + 1
    /\ prev_run' = Some([pc |-> pc, edits |-> edits, edl |-> edl])
    /\ replay' = emb_log
    /\ edits' = << >>
    /\ last_edit_time' = last
    /\ seg_idx' = 1
    /\ match' = NoMatch
    /\ edl' = None
    /\ pc' = "loop"
    /\ MatcherReturns
    /\ scores' = << >>
    /\ failed_clips' = {}
    /\ edit_segs' = << >>
    /\ match_calls' = << >>
    /\ emb_failures' = 0
    /\ emb_log' = << >>
    /\ emb_calls' = 0
    /\ reason_calls' = 0
    /\ UNCHANGED <<offstage, inputs, client>>

\* the end of the last overlay kept from the first call
Rerun_keeps_end == Recall(last_edit_time)

\* lines 42-43 again
Rerun == Recall(NoEditYet(min_gap))

NextPair ==
    \/ Step
    \/ Rerun

SpecPair == InitPair /\ [][NextPair]_vars

SpecDet == InitDet /\ [][NextPair]_vars

----------------------------------------------------------------------------
\* planner.validate_edl

MaxEdits == 2

\* line 118
required_fields == <<"start_time", "duration", "b_roll_clip", "reason">>

\* The EDLs validate_edl is called with: with or without the edits key, each
\* edit holding any of the required fields, times of either sign
StartTimes == {-Sec(1), 0}
Durations == {-Sec(2), 0, Sec(2)}
FullEdits ==
    [start_time : StartTimes, duration : Durations,
     b_roll_clip : {"clip.mp4"}, reason : {"r"}]
EditDicts ==
    {[f \in keys |-> e[f]] :
        e \in FullEdits, keys \in SUBSET {"start_time", "duration",
                                          "b_roll_clip", "reason"}}
EdlDicts ==
    {[metadata |-> "m"]} \cup
    {[metadata |-> "m", edits |-> es] : es \in SeqsUpTo(EditDicts, MaxEdits)}

\* the ValueError messages of lines 116, 123, 126 and 129; idx counts from 0
ValueError(kind, idx, field) == [kind |-> kind, edit |-> idx, field |-> field]

\* the first call of validate_edl
InitValidate ==
    /\ PlannerIdle
    /\ TranscriberIdle
    /\ v_edl \in EdlDicts
    /\ v_pc = "start"
    /\ v_idx = 0
    /\ v_error = None

\* lines 115-116
MissingEdits ==
    /\ v_pc = "start"
    /\ "edits" \notin DOMAIN v_edl
    /\ v_pc' = "raised"
    /\ v_error' = Some(ValueError("no edits", None, "edits"))
    /\ UNCHANGED <<planning, transcription, v_edl, v_idx>>

\* line 120, entering the loop
EnterLoop ==
    /\ v_pc = "start"
    /\ "edits" \in DOMAIN v_edl
    /\ v_pc' = "loop"
    /\ v_idx' = 0
    /\ UNCHANGED <<planning, transcription, v_edl, v_error>>

\* the edit at index idx of enumerate, line 120
edit == v_edl.edits[v_idx + 1]
InEdit == v_pc = "loop" /\ v_idx < Len(v_edl.edits)

\* lines 121-122: the positions in required_fields of the fields not in edit
Missing(e) ==
    {i \in DOMAIN required_fields : required_fields[i] \notin DOMAIN e}

Raise(error) ==
    /\ v_pc' = "raised"
    /\ v_error' = Some(error)
    /\ UNCHANGED <<planning, transcription, v_edl, v_idx>>

\* lines 121-123
MissingField ==
    /\ InEdit
    /\ Missing(edit) # {}
    /\ LET first == CHOOSE i \in Missing(edit) :
                        \A j \in Missing(edit) : i <= j
       IN  Raise(ValueError("missing", v_idx, required_fields[first]))

\* a duration of zero let through
BadDuration_negative(e) == e.duration < 0

\* line 125
BadDuration(e) == e.duration <= 0

\* line 128
BadStartTime(e) == e.start_time < 0

\* lines 125-126
InvalidDuration ==
    /\ InEdit
    /\ Missing(edit) = {}
    /\ BadDuration(edit)
    /\ Raise(ValueError("invalid", v_idx, "duration"))

\* lines 128-129
InvalidStartTime ==
    /\ InEdit
    /\ Missing(edit) = {}
    /\ ~BadDuration(edit)
    /\ BadStartTime(edit)
    /\ Raise(ValueError("invalid", v_idx, "start_time"))

\* lines 120-129, an edit that passes every test
EditPasses ==
    /\ InEdit
    /\ Missing(edit) = {}
    /\ ~BadDuration(edit)
    /\ ~BadStartTime(edit)
    /\ v_idx' = v_idx + 1
    /\ UNCHANGED <<planning, transcription, v_edl, v_pc, v_error>>

\* line 131
ReturnTrue ==
    /\ v_pc = "loop"
    /\ v_idx >= Len(v_edl.edits)
    /\ v_pc' = "returned"
    /\ UNCHANGED <<planning, transcription, v_edl, v_idx, v_error>>

NextValidate ==
    \/ MissingEdits
    \/ EnterLoop
    \/ MissingField
    \/ InvalidDuration
    \/ InvalidStartTime
    \/ EditPasses
    \/ ReturnTrue

SpecValidate == InitValidate /\ [][NextValidate]_vars

\* lines 105-131 as one call: the error validate_edl raises on edl_dict, None
\* when it returns True
validate_edl(edl_dict) ==
    IF "edits" \notin DOMAIN edl_dict
    THEN Some(ValueError("no edits", None, "edits"))
    ELSE LET bad == {i \in DOMAIN edl_dict.edits :
                        \/ Missing(edl_dict.edits[i]) # {}
                        \/ BadDuration(edl_dict.edits[i])
                        \/ BadStartTime(edl_dict.edits[i])}
         IN  IF bad = {}
             THEN None
             ELSE LET i == CHOOSE k \in bad : \A j \in bad : k <= j
                      e == edl_dict.edits[i]
                      first == CHOOSE k \in Missing(e) :
                                   \A j \in Missing(e) : k <= j
                  IN  Some(IF Missing(e) # {}
                           THEN ValueError("missing", i - 1,
                                           required_fields[first])
                           ELSE IF BadDuration(e)
                           THEN ValueError("invalid", i - 1, "duration")
                           ELSE ValueError("invalid", i - 1, "start_time"))

\* validate_edl called with the EDL that generate_edit_plan returned
ValidatePlan ==
    /\ pc = "done"
    /\ v_pc = "idle"
    /\ v_edl' = edl[1]
    /\ v_error' = validate_edl(edl[1])
    /\ v_pc' = IF validate_edl(edl[1]) = None THEN "returned" ELSE "raised"
    /\ v_idx' = IF validate_edl(edl[1]) = None
                THEN Len(edl[1].edits)
                ELSE IF validate_edl(edl[1])[1].edit = None
                THEN 0
                ELSE validate_edl(edl[1])[1].edit
    /\ UNCHANGED <<planning, transcription>>

NextPlanValidate == Step \/ ValidatePlan

SpecPlanValidate == Init /\ [][NextPlanValidate]_vars

----------------------------------------------------------------------------
\* transcription.transcribe_video

MaxItems == 2

\* line 32
max_retries == 30

\* lines 43-49
models_to_try == <<"gemini-flash-latest", "gemini-2.0-flash-lite",
                   "gemini-2.0-flash", "gemini-1.5-flash", "gemini-pro">>

\* uploaded_file.state.name as genai reports it
FileStates == {"PROCESSING", "ACTIVE", "FAILED"}

\* JSON values, tagged with their Python type
Num(n) == <<"num", n>>
Str(x) == <<"str", x>>
Dict(d) == <<"dict", d>>
List(x) == <<"list", x>>

\* What the model may put in its list: a well-formed segment, one that ends
\* before it starts, one that starts before 0, one with its times as numeric
\* strings, one with a start that is no number, one without end, and a number
Items ==
    {Dict([start |-> Num(0), end |-> Num(Sec(5)), text |-> " hello "]),
     Dict([start |-> Num(Sec(5)), end |-> Num(Sec(3)), text |-> "x"]),
     Dict([start |-> Num(-Sec(1)), end |-> Num(Sec(2)), text |-> "x"]),
     Dict([start |-> Str("1.5"), end |-> Str("4"), text |-> "x"]),
     Dict([start |-> Str("abc"), end |-> Num(Sec(1)), text |-> "x"]),
     Dict([start |-> Num(0), text |-> "x"]),
     Num(7)}

\* What response.text may hold: JSON (a list, or a number), or no JSON at all;
\* bare, or inside a markdown fence, labelled json or not.  A blocked response
\* has no text.
Garbage == <<"garbage">>
Bodies == {Garbage, Num(7)} \cup {List(x) : x \in SeqsUpTo(Items, MaxItems)}
Blocked == [fence |-> "blocked", body |-> Garbage]
Responses ==
    {Blocked} \cup [fence : {"none", "json fence", "fence"}, body : Bodies]

\* The exceptions raised inside the try of lines 23-119
Exception(msg, detail) == [msg |-> msg, detail |-> detail]

\* str(e) of the exception a model raised: one text per model
ModelError(i) == Exception("model failed", models_to_try[i])

\* the first call of transcribe_video
InitTranscribe ==
    /\ PlannerIdle
    /\ ValidatorIdle
    /\ t_pc = "upload"
    /\ file_state = None
    /\ retry_count = 0
    /\ model_idx = 0
    /\ tried = << >>
    /\ response = None
    /\ last_error = None
    /\ caught = None
    /\ returned = None

\* an exception raised inside the try: control goes to line 121
Throw(e) ==
    /\ t_pc' = "except"
    /\ caught' = Some(e)

\* lines 24-28, the upload raising
UploadRaises ==
    /\ t_pc = "upload"
    /\ configured' = configure_gemini(configured, api_key)
    /\ Throw(Exception("upload failed", None))
    /\ UNCHANGED <<plan_state, api_key, validation, file_state, retry_count,
                   model_idx, tried, response, last_error, returned>>

\* lines 24-33
Upload ==
    /\ t_pc = "upload"
    /\ configured' = configure_gemini(configured, api_key)
    /\ file_state' \in {Some(x) : x \in FileStates}
    /\ retry_count' = 0
    /\ t_pc' = "wait"
    /\ UNCHANGED <<plan_state, api_key, validation, model_idx, tried,
                   response, last_error, caught, returned>>

\* the wait going on for as long as the file is PROCESSING
Waiting_unbounded == file_state = Some("PROCESSING")

\* line 34
Waiting == file_state = Some("PROCESSING") /\ retry_count < max_retries

\* lines 34-37
Poll ==
    /\ t_pc = "wait"
    /\ Waiting
    /\ file_state' \in {Some(x) : x \in FileStates}
    /\ retry_count' = retry_count + 1
    /\ UNCHANGED <<planning, validation, t_pc, model_idx, tried, response,
                   last_error, caught, returned>>

\* line 36, get_file raising
PollRaises ==
    /\ t_pc = "wait"
    /\ Waiting
    /\ Throw(Exception("get_file failed", None))
    /\ UNCHANGED <<planning, validation, file_state, retry_count, model_idx,
                   tried, response, last_error, returned>>

\* lines 39-40
UploadFailed ==
    /\ t_pc = "wait"
    /\ ~Waiting
    /\ file_state = Some("FAILED")
    /\ Throw(Exception("File upload to Gemini failed", None))
    /\ UNCHANGED <<planning, validation, file_state, retry_count, model_idx,
                   tried, response, last_error, returned>>

\* lines 39-51, the file not FAILED
StartModels ==
    /\ t_pc = "wait"
    /\ ~Waiting
    /\ file_state # Some("FAILED")
    /\ t_pc' = "models"
    /\ model_idx' = 1
    /\ response' = None
    /\ last_error' = None
    /\ UNCHANGED <<planning, validation, file_state, retry_count, tried,
                   caught, returned>>

InModels == t_pc = "models" /\ model_idx <= Len(models_to_try)

\* the first error kept
LastError_first(previous, e) == IF previous = None THEN Some(e) ELSE previous

\* line 82
LastError(previous, e) == Some(e)

\* lines 69-83, the model raising
ModelRaises ==
    /\ InModels
    /\ tried' = Append(tried, [model |-> models_to_try[model_idx],
                               outcome |-> "raised"])
    /\ last_error' = LastError(last_error, ModelError(model_idx))
    /\ model_idx' = model_idx + 1
    /\ UNCHANGED <<planning, validation, t_pc, file_state, retry_count,
                   response, caught, returned>>

\* lines 69-80, the model answering: a response object is true
ModelResponds ==
    /\ InModels
    /\ tried' = Append(tried, [model |-> models_to_try[model_idx],
                               outcome |-> "response"])
    /\ response' \in {Some(r) : r \in Responses}
    /\ t_pc' = "parse"
    /\ UNCHANGED <<planning, validation, file_state, retry_count, model_idx,
                   last_error, caught, returned>>

\* lines 85-86
AllModelsFailed ==
    /\ t_pc = "models"
    /\ model_idx > Len(models_to_try)
    /\ response = None
    /\ Throw(Exception("All models failed. Last error", last_error))
    /\ UNCHANGED <<planning, validation, file_state, retry_count, model_idx,
                   tried, response, last_error, returned>>

\* json.loads: the value of a text that is JSON and nothing else
loads(text) ==
    IF text.fence = "none" /\ text.body # Garbage THEN Some(text.body)
    ELSE None

\* lines 94-97: the inside of the first fence, if there is one
Unfenced(text) ==
    IF text.fence = "json fence" THEN [text EXCEPT !.fence = "none"]
    ELSE IF text.fence = "fence" THEN [text EXCEPT !.fence = "none"]
    ELSE text

\* lines 89-98: segments, or None when the second json.loads raises
Parse(text) ==
    IF loads(text) # None THEN loads(text) ELSE loads(Unfenced(text))

\* float() of a JSON number or string, None when it raises
float(v) ==
    IF v[1] = "num" THEN Some(v[2])
    ELSE IF v = Str("1.5") THEN Some(Ms(1500))
    ELSE IF v = Str("4") THEN Some(Sec(4))
    ELSE None

\* str(x).strip()
strip(x) == IF x = " hello " THEN "hello" ELSE x

\* line 103
HasKeys(seg) ==
    /\ seg[1] = "dict"
    /\ {"start", "end", "text"} \subseteq DOMAIN seg[2]

\* lines 104-108, None when a float() raises
Validated(seg) ==
    LET d == seg[2]
    IN  IF float(d.start) = None \/ float(d.end) = None THEN None
        ELSE Some([start |-> float(d.start)[1], end |-> float(d.end)[1],
                   text |-> strip(d.text)])

\* lines 101-108: validated_segments, None when the loop raises
RECURSIVE validate(_)
validate(items) ==
    IF items = << >> THEN Some(<< >>)
    ELSE LET rest == validate(Tail(items))
             seg == Head(items)
         IN  IF ~HasKeys(seg) THEN rest
             ELSE IF Validated(seg) = None THEN None
             ELSE IF rest = None THEN None
             ELSE Some(<<Validated(seg)[1]>> \o rest[1])

\* lines 89-108 for the response at hand
segments == Parse(response[1])
validated_segments == validate(segments[1][2])

\* line 89, response.text raising
TextRaises ==
    /\ t_pc = "parse"
    /\ response = Some(Blocked)
    /\ Throw(Exception("response has no text", None))
    /\ UNCHANGED <<planning, validation, file_state, retry_count, model_idx,
                   tried, response, last_error, returned>>

\* lines 89-98, the second json.loads raising
ParseRaises ==
    /\ t_pc = "parse"
    /\ response # Some(Blocked)
    /\ segments = None
    /\ Throw(Exception("JSONDecodeError", None))
    /\ UNCHANGED <<planning, validation, file_state, retry_count, model_idx,
                   tried, response, last_error, returned>>

\* lines 101-108 raising: segments no list, or a time no number
ValidateRaises ==
    /\ t_pc = "parse"
    /\ response # Some(Blocked)
    /\ segments # None
    /\ \/ /\ segments[1][1] # "list"
          /\ Throw(Exception("TypeError", None))
       \/ /\ segments[1][1] = "list"
          /\ validated_segments = None
          /\ Throw(Exception("ValueError", None))
    /\ UNCHANGED <<planning, validation, file_state, retry_count, model_idx,
                   tried, response, last_error, returned>>

\* lines 112-116
Placeholder ==
    [start |-> 0, end |-> Sec(10),
     text |-> "Transcription produced no valid segments."]

\* lines 110-116
NoValidSegments ==
    /\ t_pc = "parse"
    /\ response # Some(Blocked)
    /\ segments # None
    /\ segments[1][1] = "list"
    /\ validated_segments = Some(<< >>)
    /\ returned' = Some(<<Placeholder>>)
    /\ t_pc' = "returned"
    /\ UNCHANGED <<planning, validation, file_state, retry_count, model_idx,
                   tried, response, last_error, caught>>

\* lines 118-119
ReturnSegments ==
    /\ t_pc = "parse"
    /\ response # Some(Blocked)
    /\ segments # None
    /\ segments[1][1] = "list"
    /\ validated_segments # None
    /\ validated_segments # Some(<< >>)
    /\ returned' = validated_segments
    /\ t_pc' = "returned"
    /\ UNCHANGED <<planning, validation, file_state, retry_count, model_idx,
                   tried, response, last_error, caught>>

\* lines 123-127
ErrorSegment(e) ==
    [start |-> 0, end |-> Sec(5),
     text |-> <<"Error during transcription", e>>]

\* the exception leaving transcribe_video
Handler_propagates ==
    /\ t_pc = "except"
    /\ t_pc' = "propagated"
    /\ UNCHANGED <<planning, validation, file_state, retry_count, model_idx,
                   tried, response, last_error, caught, returned>>

\* lines 121-127
Handler ==
    /\ t_pc = "except"
    /\ returned' = Some(<<ErrorSegment(caught[1])>>)
    /\ t_pc' = "returned"
    /\ UNCHANGED <<planning, validation, file_state, retry_count, model_idx,
                   tried, response, last_error, caught>>

NextTranscribe ==
    \/ UploadRaises
    \/ Upload
    \/ Poll
    \/ PollRaises
    \/ UploadFailed
    \/ StartModels
    \/ ModelRaises
    \/ ModelResponds
    \/ AllModelsFailed
    \/ TextRaises
    \/ ParseRaises
    \/ ValidateRaises
    \/ NoValidSegments
    \/ ReturnSegments
    \/ Handler

SpecTranscribe == InitTranscribe /\ [][NextTranscribe]_vars

----------------------------------------------------------------------------
\* Properties

Returned == pc = "done"
EDL == edl[1]

\* The B-roll duration line 71 computed for the i-th committed edit, before
\* it was rounded for storage
Unrounded(i) ==
    LET seg == transcript_segments[edit_segs[i]]
    IN  BrollDuration(seg.end - seg.start)

\* The largest of a non-empty sequence of scores, and its first position
FirstArgMax(ss) ==
    CHOOSE i \in DOMAIN ss :
        /\ \A j \in DOMAIN ss : RLeq(ss[j], ss[i])
        /\ \A j \in 1..(i - 1) : RLess(ss[j], ss[i])

MaxScore(ss) == ss[FirstArgMax(ss)]

\* C1: in a returned EDL, each edit starts no earlier than the previous edit's
\* start_time plus its stored (rounded) duration.
C1_NoOverlapStored ==
    Returned =>
        \A i \in 1..(Len(EDL.edits) - 1) :
            EDL.edits[i + 1].start_time
                >= EDL.edits[i].start_time + EDL.edits[i].duration

\* C2: consecutive edits are at least min_gap apart, measured from the end of
\* the earlier overlay (its start plus its unrounded B-roll duration), and a
\* segment is matched or committed only if it starts at least min_gap after
\* the end of the last committed overlay.
C2_GapFromOverlayEnd ==
    /\ \A i \in 1..(Len(edits) - 1) :
          edits[i + 1].start_time - (edits[i].start_time + Unrounded(i))
              >= min_gap
    /\ (pc \in {"score", "matched"} /\ edits # << >>) =>
          segment_start
              - (edits[Len(edits)].start_time + Unrounded(Len(edits)))
              >= min_gap

C2_Witness ==
    /\ Returned
    /\ min_gap > 0
    /\ Len(EDL.edits) >= 2

\* C3: a returned EDL has metadata.edits_applied = len(edits), the run with
\* no edit included.
C3_EditsApplied ==
    Returned => EDL.metadata.edits_applied = Len(EDL.edits)

C3_Witness ==
    /\ Returned
    /\ EDL.edits # << >>
    /\ Len(EDL.edits) < EDL.metadata.total_segments

\* C4: no edit has a stored duration below 2.0 seconds, and no edit is placed
\* on a segment shorter than 2.5 seconds.
C4_DurationFloor ==
    \A i \in DOMAIN edits :
        /\ edits[i].duration >= Sec(2)
        /\ LET seg == transcript_segments[edit_segs[i]]
           IN  seg.end - seg.start >= Ms(2500)

\* a segment shorter than 2.5 s passes the gap gate after an edit, every clip
\* scores above the threshold for it, and the run returns that one edit only
C4_Witness ==
    /\ Returned
    /\ Len(transcript_segments) = 2
    /\ transcript_segments[2].end - transcript_segments[2].start < Ms(2500)
    /\ min_gap = 0
    /\ similarity_threshold = Rat(7, 10)
    /\ broll_clips # << >>
    /\ \A i \in DOMAIN broll_clips : broll_clips[i].description = "b"
    /\ emb_failures = 0
    /\ edit_segs = <<1>>

\* C5: a second run on the same arguments and the same embedding results,
\* whose reasoning calls are free to succeed, fail or return another text,
\* ends as the first run did, and returns the same edits up to their reasons.
C5_ReasonIsCosmetic ==
    (run_no = 2 /\ pc \in {"done", "raised"}) =>
        /\ pc = prev_run[1].pc
        /\ Returned =>
              ChosenEdits(EDL.edits) = ChosenEdits(prev_run[1].edits)

\* both runs placed two edits: the first run with one text of the model, the
\* second with the fallback reason and with another text of the model
C5_Witness ==
    /\ run_no = 2
    /\ Returned
    /\ Len(EDL.edits) = 2
    /\ \A i \in DOMAIN prev_run[1].edits :
          prev_run[1].edits[i].reason = generate_match_reason("llm text 1")
    /\ EDL.edits[1].reason = generate_match_reason("error")
    /\ EDL.edits[2].reason = generate_match_reason("llm text 2")

\* C6: a clip whose embedding call failed in the current find_best_match call
\* is not the clip that call returns.
C6_FailedClipExcluded ==
    (pc = "matched" /\ match.best_clip # None) =>
        match.best_clip[1].clip_name \notin failed_clips

\* C7: generate_edit_plan never raises.
C7_NeverRaises == pc # "raised"

\* C8: every score compute_similarity returns, and every similarity_score
\* stored in an edit, lies in [0, 1].
C8_ScoreInUnitInterval ==
    /\ \A i \in DOMAIN scores :
          RLeq(Rat(0, 1), scores[i]) /\ RLeq(scores[i], Rat(1, 1))
    /\ \A i \in DOMAIN edits :
          /\ RLeq(Rat(0, 1), edits[i].similarity_score)
          /\ RLeq(edits[i].similarity_score, Rat(1, 1))

\* C9: throughout the scoring loop the selected clip is the first clip, in
\* catalog order, that has the highest score among the clips scored so far.
C9_FirstHighestSelected ==
    (pc = "score" /\ scores # << >>) =>
        /\ best_clip = Some(broll_clips[FirstArgMax(scores)])
        /\ best_score = MaxScore(scores)

\* C10: for a non-empty catalog find_best_match returns; it returns the
\* winning clip when the winning score is >= threshold, and otherwise no clip
\* together with the winning score.
C10_ClipIffThresholdMet ==
    (pc \in {"matched", "raised"} /\ scores # << >>) =>
        /\ pc = "matched"
        /\ match.similarity = MaxScore(scores)
        /\ IF RLeq(similarity_threshold, MaxScore(scores))
           THEN match.best_clip = Some(broll_clips[FirstArgMax(scores)])
           ELSE match.best_clip = None


\* What find_best_match returns for an empty catalog, matcher.py line 78
EmptyResult(reason) ==
    [best_clip |-> None, similarity |-> Rat(0, 1), reason |-> reason]

\* What an empty catalog leads to, but for the reason text
EmptyCatalogPlan ==
    /\ emb_calls = 0
    /\ reason_calls = 0
    /\ Returned => /\ EDL.edits = << >>
                   /\ EDL.metadata.edits_applied = 0
                   /\ EDL.metadata.total_broll_clips = 0

Defect(e) ==
    \/ \E f \in {"start_time", "duration", "b_roll_clip", "reason"} :
          f \notin DOMAIN e
    \/ e.duration <= 0
    \/ e.start_time < 0

\* C12: validate_edl raises an error when the edits key is absent, when an
\* edit lacks start_time, duration, b_roll_clip or reason, or has a duration
\* <= 0 or a start_time < 0; the error names the first such edit in list
\* order; the call returns true for every EDL with none of these defects,
\* and it always ends in one of the two ways.
C12_ValidateEdl ==
    /\ v_pc = "raised" =>
          \/ "edits" \notin DOMAIN v_edl
          \/ LET i == v_error[1].edit + 1
             IN  /\ i \in DOMAIN v_edl.edits
                 /\ Defect(v_edl.edits[i])
                 /\ \A j \in 1..(i - 1) : ~Defect(v_edl.edits[j])
    /\ v_pc = "returned" =>
          /\ "edits" \in DOMAIN v_edl
          /\ \A i \in DOMAIN v_edl.edits : ~Defect(v_edl.edits[i])
    /\ v_pc \in {"start", "loop"} => ENABLED NextValidate

\* the second edit rejected for its start_time after the first one passed
C12_Witness ==
    /\ v_pc = "raised"
    /\ v_error = Some(ValueError("invalid", 1, "start_time"))

\* C13: two calls of generate_edit_plan with the same segments, clips,
\* threshold and gap, and with embedding and reasoning providers whose answers
\* are functions of their input, end the same way and produce the same EDL
\* (metadata and edits); what the first call left behind, the configured flag
\* of gemini_client included, does not change the second.
C13_Deterministic ==
    (run_no = 4 /\ pc \in {"done", "raised"}) =>
        /\ pc = prev_run[1].pc
        /\ edl = prev_run[1].edl

\* a second call that returned an EDL with an edit, started with the client
\* already configured by the first
C13_Witness ==
    /\ run_no = 4
    /\ Returned
    /\ configured
    /\ EDL.edits # << >>

\* transcribe_video has returned
Transcribed == t_pc = "returned"

\* The failures of a call, as the state shows them: no file, a FAILED file,
\* no model answering, a response without text or without JSON
FailureSeen ==
    \/ file_state = None
    \/ file_state = Some("FAILED")
    \/ tried # << >> /\ response = None
    \/ response # None /\ response[1].body = Garbage

\* The response is a JSON list with no item that has start, end and text
NoValidItem ==
    /\ response # None
    /\ response[1].body[1] = "list"
    /\ \A i \in DOMAIN response[1].body[2] : ~HasKeys(response[1].body[2][i])

\* C14: transcribe_video never lets an exception out: every call ends by
\* returning a list; after any failure the list is one segment from 0 to 5 s
\* whose text carries the error; when the response parses to a list with no
\* valid item the list is the one placeholder segment.
C14_NeverPropagates ==
    /\ t_pc # "propagated"
    /\ t_pc \notin {"idle", "returned"} => ENABLED NextTranscribe
    /\ Transcribed =>
          /\ returned # None /\ returned[1] # << >>
          /\ FailureSeen => caught # None
          /\ caught # None => returned = Some(<<ErrorSegment(caught[1])>>)
          /\ NoValidItem => returned = Some(<<Placeholder>>)

\* a call that returned the error segment for a response that is no JSON
C14_Witness ==
    /\ Transcribed
    /\ response # None
    /\ response[1].body = Garbage
    /\ returned = Some(<<ErrorSegment(Exception("JSONDecodeError", None))>>)

\* C15: every segment transcribe_video returns has start < end and
\* start >= 0, whatever the model's response.
C15_SegmentsWellFormed ==
    Transcribed =>
        \A i \in DOMAIN returned[1] :
            /\ returned[1][i].start < returned[1][i].end
            /\ returned[1][i].start >= 0

\* C20: the models are tried in the order of models_to_try, each at most
\* once; only the last model tried can have answered, so no model is tried
\* after a response and each is tried only after all before it raised; when
\* all five raise, the error returned carries the error of the last one.
C20_FirstSuccessWins ==
    /\ \A i \in DOMAIN tried :
          /\ i <= Len(models_to_try)
          /\ tried[i].model = models_to_try[i]
          /\ i < Len(tried) => tried[i].outcome = "raised"
    /\ response # None =>
          tried # << >> /\ tried[Len(tried)].outcome = "response"
    /\ (Transcribed /\ response = None /\ Len(tried) = Len(models_to_try)) =>
          returned = Some(<<ErrorSegment(
              Exception("All models failed. Last error",
                        Some(ModelError(Len(models_to_try)))))>>)

\* a call that returned after all five models raised
C20_Witness ==
    /\ Transcribed
    /\ Len(tried) = Len(models_to_try)
    /\ \A i \in DOMAIN tried : tried[i].outcome = "raised"

\* the calls made so far, of the matcher and of its two collaborators
Calls == <<match_calls, emb_calls, reason_calls>>

\* C16: a step taken at a segment that the gap gate blocks calls neither
\* find_best_match nor the embedding provider nor the reasoning model;
\* find_best_match is called only for the segment at hand once it passed the
\* gap gate, for segments of increasing index, so at most once for each; the
\* collaborators are called only inside such a call.
C16_GapGateFirst ==
    [][/\ (InLoop /\ TooSoon(segment_start, last_edit_time, min_gap)) =>
             Calls' = Calls
       /\ match_calls' # match_calls =>
             /\ match_calls' = Append(match_calls, seg_idx)
             /\ InLoop
             /\ ~TooSoon(segment_start, last_edit_time, min_gap)
             /\ \A i \in DOMAIN match_calls : match_calls[i] < seg_idx
       /\ (emb_calls' # emb_calls \/ reason_calls' # reason_calls) =>
             /\ match_calls' # << >>
             /\ match_calls'[Len(match_calls')] = seg_idx]_vars

\* a plan returned for two segments, the second blocked by the gap gate: the
\* matcher was called for the first only, with one embedding per text
C16_Witness ==
    /\ Returned
    /\ Len(transcript_segments) = 2
    /\ broll_clips # << >>
    /\ match_calls = <<1>>
    /\ emb_calls = 1 + Len(broll_clips)

\* C17: a step to the next segment either leaves edits and last_edit_time
\* as they were, or is a commit: the segment passed the match gate and the
\* duration floor, one edit is appended and last_edit_time becomes the
\* segment's start plus the B-roll duration of line 71.  A segment skipped
\* by the gap gate, the match gate or the duration floor leaves both as they
\* were, and so does every step that stays at the segment.
C17_SkipLeavesState ==
    [][LET same == edits' = edits /\ last_edit_time' = last_edit_time
           committed ==
               /\ pc = "matched"
               /\ match.best_clip # None
               /\ BrollDuration(segment_duration) >= Sec(2)
               /\ Len(edits') = Len(edits) + 1
               /\ SubSeq(edits', 1, Len(edits)) = edits
               /\ last_edit_time' =
                      segment_start + BrollDuration(segment_duration)
           skipped ==
               \/ pc = "loop" /\ TooSoon(segment_start, last_edit_time, min_gap)
               \/ pc = "matched" /\ match.best_clip = None
               \/ /\ pc = "matched"
                  /\ match.best_clip # None
                  /\ BrollDuration(segment_duration) < Sec(2)
       IN  /\ seg_idx' = seg_idx => same
           /\ seg_idx' # seg_idx => (same \/ committed)
           /\ (seg_idx' # seg_idx /\ skipped) => same]_vars

\* a plan returned for two segments: an edit for the first, the second
\* matched and then skipped, last_edit_time still the end of the first overlay
C17_Witness ==
    /\ Returned
    /\ Len(transcript_segments) = 2
    /\ match_calls = <<1, 2>>
    /\ edit_segs = <<1>>
    /\ last_edit_time = transcript_segments[1].start + Unrounded(1)

\* C18: as long as no edit is committed, the gap gate blocks no segment
\* that starts at 0 or later; with last_edit_time starting at -min_gap this
\* is so for a min_gap of either sign.
C18_FirstEditNeverBlocked ==
    /\ (InLoop /\ edits = << >> /\ segment_start >= 0) =>
          ~TooSoon(segment_start, last_edit_time, min_gap)
    /\ \A gap \in {-Sec(8), -1, 0, 1, Sec(8)}, start \in {0, 1, Sec(20)} :
          ~TooSoon(start, NoEditYet(gap), gap)

\* the second segment reaching the matcher with no edit committed and a gap
\* of 8 s
C18_Witness ==
    /\ pc = "score"
    /\ seg_idx = 2
    /\ edits = << >>
    /\ min_gap = Sec(8)

\* C19: the scan never goes back: each step stays at the segment or moves to
\* the next one; edits changes only with the move to the next segment, by
\* one edit appended; the edits are those of segments of increasing index,
\* each with its segment's start, and all of them lie behind the scan; a
\* plan is returned only when every segment has been passed.
C19_SinglePass ==
    [][/\ seg_idx' \in {seg_idx, seg_idx + 1}
       /\ edits' # edits =>
             /\ seg_idx' = seg_idx + 1
             /\ Len(edits') = Len(edits) + 1
             /\ SubSeq(edits', 1, Len(edits)) = edits
       /\ Len(edit_segs') = Len(edits')
       /\ \A i \in DOMAIN edits' :
             /\ edit_segs'[i] < seg_idx'
             /\ i > 1 => edit_segs'[i - 1] < edit_segs'[i]
             /\ edits'[i].start_time = transcript_segments[edit_segs'[i]].start
       /\ pc' = "done" => seg_idx' = Len(transcript_segments) + 1]_vars

\* a plan returned for two segments with one edit, for the second segment
C19_Witness ==
    /\ Returned
    /\ match_calls = <<1, 2>>
    /\ edit_segs = <<2>>

\* C21: the duration stored in an edit is 0.8 times the duration of the
\* segment the edit was placed on, rounded to 2 decimals; it is at most the
\* segment's duration, so start_time + duration is at most the segment's end.
C21_WithinSegment ==
    \A i \in DOMAIN edits :
        LET seg == transcript_segments[edit_segs[i]]
        IN  /\ edits[i].duration = Round2((8 * (seg.end - seg.start)) \div 10)
            /\ edits[i].duration <= seg.end - seg.start
            /\ edits[i].start_time + edits[i].duration <= seg.end

\* a plan returned with an edit on the segment of 2.507 s, its duration of
\* 2.0056 s stored as 2.01 s
C21_Witness ==
    /\ Returned
    /\ Len(EDL.edits) = 1
    /\ EDL.edits[1].start_time = 0
    /\ EDL.edits[1].duration = Ms(2010)
    /\ transcript_segments[1].end = Ms(2507)

\* C22 as stated: every edit of a returned EDL stores a similarity_score,
\* rounded to 3 decimals, that is not below the similarity_threshold in the
\* EDL's metadata, and a clip returned by the matcher is the best-scoring
\* clip for the segment.
C22_StoredScoreMeetsThreshold ==
    /\ Returned =>
          \A i \in DOMAIN EDL.edits :
              RLeq(EDL.metadata.similarity_threshold,
                   EDL.edits[i].similarity_score)
    /\ (pc = "matched" /\ match.best_clip # None) =>
          match.best_clip = Some(broll_clips[FirstArgMax(scores)])

\* C22, amended: an edit is appended only for the first best-scoring clip of
\* the segment and only if its score is not below the threshold; the score
\* stored is that score rounded to 3 decimals, which is not below the
\* threshold rounded to 3 decimals; the EDL returned holds these edits and
\* the threshold of the call.
C22_QualityGate ==
    [][/\ edits' # edits =>
             LET e == edits'[Len(edits')]
             IN  /\ scores # << >>
                 /\ e.b_roll_clip = broll_clips[FirstArgMax(scores)].clip_name
                 /\ RLeq(similarity_threshold, MaxScore(scores))
                 /\ e.similarity_score = Round3(MaxScore(scores))
                 /\ RLeq(Round3(similarity_threshold), e.similarity_score)
       /\ pc' = "done" =>
             /\ edl'[1].edits = edits
             /\ edl'[1].metadata.similarity_threshold = similarity_threshold
             /\ \A i \in DOMAIN edits :
                   RLeq(Round3(similarity_threshold),
                        edits[i].similarity_score)]_vars

\* a plan returned under the threshold 0.9692 with an edit whose score of
\* 63/65 is stored as 0.969
C22_Witness ==
    /\ Returned
    /\ EDL.metadata.similarity_threshold = Rat(9692, 10000)
    /\ \E i \in DOMAIN EDL.edits :
          EDL.edits[i].similarity_score = Rat(969, 1000)

\* C23: every EDL that generate_edit_plan produces from segments with
\* start >= 0 and end > start passes validate_edl: the EDL has its edits, each
\* edit carries start_time, duration, b_roll_clip and reason, its duration is
\* > 0 and its start_time is >= 0, so validate_edl returns True on it and
\* never raises.
C23_PlanValidates ==
    /\ \A i \in DOMAIN transcript_segments :
          /\ transcript_segments[i].start >= 0
          /\ transcript_segments[i].end > transcript_segments[i].start
    /\ Returned =>
          /\ "edits" \in DOMAIN EDL
          /\ \A i \in DOMAIN EDL.edits :
                /\ \A k \in DOMAIN required_fields :
                      required_fields[k] \in DOMAIN EDL.edits[i]
                /\ EDL.edits[i].duration > 0
                /\ EDL.edits[i].start_time >= 0
          /\ validate_edl(EDL) = None
    /\ v_pc # "raised"
    /\ v_pc = "returned" => v_error = None /\ v_idx = Len(EDL.edits)

\* a plan of two edits validated
C23_Witness ==
    /\ v_pc = "returned"
    /\ pc = "done"
    /\ Len(v_edl.edits) = 2

\* C24: the wait for the uploaded file is bounded: the file state is polled
\* at most 30 times and only while it is PROCESSING; once the state is not
\* PROCESSING, or 30 polls are done, no further poll is made and the call goes
\* on at once; a file found FAILED makes the call return the error segment of
\* the failed upload with no model tried; a file still PROCESSING after 30
\* polls lets the call go on to the models.
C24_BoundedWait ==
    /\ retry_count <= max_retries
    /\ ENABLED Poll \/ ENABLED PollRaises =>
          /\ t_pc = "wait"
          /\ file_state = Some("PROCESSING")
          /\ retry_count < max_retries
    /\ (t_pc = "wait" /\ file_state = Some("PROCESSING")
                      /\ retry_count < max_retries) => ENABLED Poll
    /\ (t_pc = "wait" /\ file_state # Some("PROCESSING")) =>
          ENABLED UploadFailed \/ ENABLED StartModels
    /\ (t_pc = "wait" /\ file_state = Some("FAILED")) =>
          ENABLED UploadFailed /\ ~ENABLED StartModels
    /\ (t_pc = "wait" /\ file_state = Some("PROCESSING")
                      /\ retry_count = max_retries) => ENABLED StartModels
    /\ t_pc \in {"models", "parse"} => file_state # Some("FAILED")
    /\ file_state = Some("FAILED") => tried = << >>
    /\ (Transcribed /\ file_state = Some("FAILED")) =>
          returned = Some(<<ErrorSegment(
                               Exception("File upload to Gemini failed",
                                         None))>>)

\* the file still PROCESSING after 30 polls, and the call returned after
\* trying a model
C24_Witness ==
    /\ Transcribed
    /\ retry_count = max_retries
    /\ file_state = Some("PROCESSING")
    /\ tried # << >>


============================================================================
